---------------------------- MODULE Spec2Model ----------------------------
(***************************************************************************)
(* Serial-device acquisition layer of the Python source agent              *)
(* (src/Python/source_arduino.py): advisory lock files, candidate loop,    *)
(* JSON probe, setup() and get_output().                                   *)
(*                                                                         *)
(* The agent process is modelled statement group by statement group (pc),  *)
(* so that the moments inside setup() are visible; other processes on the  *)
(* same machine take and release the same lock files concurrently.         *)
(***************************************************************************)
EXTENDS Integers, Sequences, FiniteSets, TLC

VARIABLES
    params,         \* the agent's parameters (framework global `params`)
    present,        \* device nodes currently plugged in (OS state)
    lockfile,       \* content of each /tmp/serial-lock-<basename>.lock
    otherFh,        \* lock handles held by the other processes
    pc,             \* position of the agent process
    cands,          \* auto_detect_port: the list being iterated
    idx,            \* auto_detect_port: position in the list (1-based)
    lock_fh,        \* local lock_fh of setup / auto_detect_port
    connection,     \* local connection (auto_detect_port) / s (setup)
    ser,            \* global ser
    _port_lock_fh,  \* global _port_lock_fh
    state,          \* the framework's dict `state`; state.n is state["n"]
    garbage,        \* unreferenced, not yet finalized file objects
    out,            \* what get_output() gave its caller, if it was the last call
    lastRead,       \* what ser.readline() did in that get_output()
    tried,          \* history: <<candidate, outcome>> of the running setup()
    setupResult,    \* history: how setup() ended, if it was the last call
    call,           \* a function called on its own: its name and arguments
    ret,            \* what that call returned
    web             \* sink_arduino_web.py: the global latest_readings, the
                    \* dict objects, and the web server thread's position

\* the state of the running agent and of its machine
agentVars == <<params, present, lockfile, otherFh, pc, cands, idx, lock_fh,
               connection, ser, _port_lock_fh, state, garbage, out, lastRead,
               tried, setupResult>>

vars == <<params, present, lockfile, otherFh, pc, cands, idx, lock_fh,
          connection, ser, _port_lock_fh, state, garbage, out, lastRead,
          tried, setupResult, call, ret, web>>

---------------------------------------------------------------------------
(* Bounds *)

\* other processes competing for the lock files
NumOthers == 1
\* cap of the record counter state["n"]
MaxN == 2
\* file objects that may wait for finalization at one time
MaxGarbage == 1
\* longest probe window of the stand-alone calls of the probe
MaxProbe == 5
\* most members of a JSON object line
MaxFields == 2
\* times _release_file_lock is called over on one handle
MaxReleases == 2
\* longest run of readline() outcomes fed to successive get_output() calls
MaxWire == 3
\* largest params["max_len"] of the plotting sink
MaxLen == 2
\* packets delivered to the web dashboard sink in one run
MaxPackets == 2

---------------------------------------------------------------------------
(* Values *)

None == [none |-> TRUE]

\* the dict `state` before setup() has stored state["n"]
NoKeys == [nokeys |-> TRUE]

ACM0 == [dir |-> "/dev", base |-> "ttyACM0"]
USB0 == [dir |-> "/dev", base |-> "ttyUSB0"]

\* the device nodes of the machine
DevicePaths == {ACM0, USB0}

\* the agent is process 1, the others are 2 .. NumOthers + 1
Self == 1
Others == 2 .. (NumOthers + 1)

\* call site value of max_lines (both calls pass 15)
max_lines == 15

\* lock_path = f"/tmp/serial-lock-{os.path.basename(port_path)}.lock"
LockPath(port_path) == port_path.base

LockFiles == {LockPath(p) : p \in DevicePaths}

\* a lock file object returned by open(lock_path, "w")
Fh(port_path) == [path |-> port_path, closed |-> FALSE]

\* a serial.Serial object; accepted records that the probe returned True on it
Serial(port_path) ==
    [port |-> port_path, closed |-> FALSE, accepted |-> FALSE, dead |-> FALSE]

IsFh(o) == "path" \in DOMAIN o
IsSerial(o) == "port" \in DOMAIN o

\* json.dumps({"processed": False})
Marker == "marker"

---------------------------------------------------------------------------
(* Kernel view of the flock()s on one lock file *)

\* the open lock handles of the agent process
SelfFhs ==
    {o \in ({lock_fh, _port_lock_fh} \cup garbage) : IsFh(o) /\ ~o.closed}

\* the holders of the flock on lock file lf: <<pid, handle>>
Holders(lf) ==
    {<<Self, o>> : o \in {h \in SelfFhs : LockPath(h.path) = lf}}
    \cup {<<q, lf>> : q \in {r \in Others : lf \in otherFh[r]}}

\* the open serial connections of the agent process
SelfConns ==
    {o \in ({ser, connection} \cup garbage) : IsSerial(o) /\ ~o.closed}

---------------------------------------------------------------------------
(* Pure helpers *)

\* mutant: the flock is granted whoever holds it
flock_granted_anyway(lf) == TRUE

\* fcntl.flock(fd, LOCK_EX | LOCK_NB): TRUE iff the lock is granted; it is
\* denied (BlockingIOError) while any other open file description holds it
flock_EX_NB(lf) == Holders(lf) = {}

\* _try_acquire_file_lock(port_path) run by process pid; openErr: open() of
\* the lock file raises OSError.  ret: "fh" | "None" | "OSError";
\* content: the lock file's content afterwards
_try_acquire_file_lock(pid, port_path, openErr) ==
    LET lf == LockPath(port_path) IN
    IF openErr THEN [ret |-> "OSError", content |-> lockfile[lf]]
    ELSE IF flock_EX_NB(lf) THEN [ret |-> "fh", content |-> ToString(pid)]
    ELSE [ret |-> "None", content |-> "empty"]

\* _release_file_lock(fh): the handle afterwards (None is falsy: returns at
\* once; flock on a closed handle raises ValueError, which is swallowed)
_release_file_lock(fh) ==
    IF fh = None THEN None ELSE [fh EXCEPT !.closed = TRUE]

\* fcntl.flock(fh.fileno(), LOCK_UN) (line 69): fileno() of a closed file
\* raises ValueError
flock_UN(fh) == IF fh.closed THEN "ValueError" ELSE "nothing"

\* mutant: no try around the unlock, the exception goes to the caller
except_missing(exc) == exc

\* `except Exception: pass` (lines 70-71, 74-75)
except_pass(exc) == "nothing"

\* what _release_file_lock(fh) raises; close() of a closed file does nothing
release_raises(fh) ==
    IF fh = None THEN "nothing" ELSE except_pass(flock_UN(fh))

\* _open_serial_with_exclusive (lines 31-42): the open that is made in the
\* end.  serial.Serial(..., exclusive=True) raises TypeError on a pyserial
\* that does not know the argument, and the port is then opened without it
_open_serial_with_exclusive(pyserial) ==
    IF pyserial = "exclusive supported" THEN "exclusive" ELSE "plain"

\* connection.close()
close(conn) == IF conn = None THEN None ELSE [conn EXCEPT !.closed = TRUE]

\* "/ttyACM" in p.device, "/ttyUSB" in p.device
IsACM(p) == p.base \in {"ttyACM0", "ttyACM1"}
IsUSB(p) == p.base \in {"ttyUSB0", "ttyUSB1"}

ACM1 == [dir |-> "/dev", base |-> "ttyACM1"]
USB1 == [dir |-> "/dev", base |-> "ttyUSB1"]

\* the string order of the device paths
StrOrder == <<ACM0, ACM1, USB0, USB1>>
StrRank(p) == CHOOSE i \in 1 .. Len(StrOrder) : StrOrder[i] = p
\* key=lambda x: ("/ttyACM" not in x, x), compared as Python tuples
KeyLess(a, b) ==
    \/ IsACM(a) /\ ~IsACM(b)
    \/ IsACM(a) = IsACM(b) /\ StrRank(a) < StrRank(b)

common == <<ACM0, ACM1, USB0, USB1>>

RECURSIVE AppendCommon(_, _, _)
\* for c in common: if c not in detected and os.path.exists(c): append
AppendCommon(detected, i, exists) ==
    IF i > Len(common) THEN detected
    ELSE LET c == common[i]
             isin == \E j \in 1 .. Len(detected) : detected[j] = c
         IN AppendCommon(IF ~isin /\ c \in exists
                            THEN Append(detected, c) ELSE detected,
                         i + 1, exists)

\* mutant: the detected ports are left in the order comports() gave them
list_unsorted(comports, exists) ==
    AppendCommon(SelectSeq(comports, LAMBDA p : IsACM(p) \/ IsUSB(p)), 1, exists)

\* _list_candidate_ports(), given list_ports.comports() and the set of
\* paths for which os.path.exists is true
_list_candidate_ports(comports, exists) ==
    LET detected == SelectSeq(comports, LAMBDA p : IsACM(p) \/ IsUSB(p))
        sorted == SortSeq(detected, KeyLess)
    IN AppendCommon(sorted, 1, exists)

\* the orders in which comports() may list the present devices
Perms(S) ==
    {f \in [1 .. Cardinality(S) -> S] :
        \A i, j \in 1 .. Cardinality(S) : i # j => f[i] # f[j]}

\* what list_ports.comports() can do when the device nodes S exist: list
\* them in some order, or raise (it reads /dev and /sys)
ComportsOutcomes(S) ==
    {[exc |-> "nothing", ports |-> f] : f \in Perms(S)}
    \cup {[exc |-> "OSError", ports |-> <<>>]}

\* the call _list_candidate_ports() when comports() does c: nothing in the
\* function catches what comports() raises; os.path.exists raises nothing
list_candidates(c, exists) ==
    IF c.exc # "nothing" THEN [exc |-> c.exc, list |-> <<>>]
    ELSE [exc |-> "nothing", list |-> _list_candidate_ports(c.ports, exists)]

\* what one readline() on a connection can do
ReadOutcomes(conn) ==
    IF conn.dead \/ conn.port \notin present THEN {"ioerror"}
    ELSE {"timeout", "nonjson", "malformed", "valid", "ioerror"}

\* mutant: a line that starts with "{" is taken for JSON without parsing it
probe_line_unparsed(line) ==
    CASE line = "ioerror" -> "raise"
      [] line \in {"valid", "malformed"} -> "True"
      [] OTHER -> "continue"

\* one iteration of the loop of _probe_for_valid_json on a line:
\* "True" (return True), "continue", or "raise" (readline raised)
probe_line(line) ==
    CASE line = "ioerror" -> "raise"
      [] line = "valid" -> "True"
      [] OTHER -> "continue"

\* mutant: the loop has no early return; it reads the whole window and
\* then answers
probe_from_full(lines, i, maxl) ==
    [ret |-> IF \E j \in i .. maxl : lines[j] = "valid" THEN "True" ELSE "False",
     consumed |-> maxl]

RECURSIVE probe_from(_, _, _)
\* the for loop of _probe_for_valid_json from its i-th iteration on
probe_from(lines, i, maxl) ==
    IF i > maxl THEN [ret |-> "False", consumed |-> maxl]
    ELSE LET r == probe_line(lines[i]) IN
         IF r = "continue" THEN probe_from(lines, i + 1, maxl)
         ELSE [ret |-> r, consumed |-> i]

\* _probe_for_valid_json(connection, max_lines) when the successive
\* readline() calls on the connection do lines[1], lines[2], ...:
\* ret is "True", "False" or "raise"; consumed counts the readline() calls
_probe_for_valid_json(lines, maxl) == probe_from(lines, 1, maxl)

\* whether a well-formed JSON object line is among the first k lines
SawValid(lines, k) == \E i \in 1 .. k : lines[i] = "valid"

\* the line streams tried on the probe: j lines of one kind of noise, then
\* one line of any kind, then silence
Streams ==
    {[i \in 1 .. max_lines |->
        IF i <= j THEN noise ELSE IF i = j + 1 THEN t ELSE "timeout"] :
     noise \in {"timeout", "nonjson", "malformed"},
     j \in 0 .. (max_lines - 1),
     t \in {"timeout", "nonjson", "malformed", "valid", "ioerror"}}

\* the streams a connection can deliver during one probe
ProbeStreams(conn) ==
    IF conn.dead \/ conn.port \notin present
    THEN {[i \in 1 .. max_lines |-> "ioerror"]}
    ELSE Streams

\* an object loses its last reference: it is finalized (closed) at once, or
\* waits in the garbage while there is room.  The possible garbage sets.
Drop(objs, g) ==
    LET live == {o \in objs : o # None /\ ~o.closed} IN
    {g \cup k : k \in {x \in SUBSET live : Cardinality(g \cup x) <= MaxGarbage}}

---------------------------------------------------------------------------
(* Initial state: a fresh agent process; no lock file exists yet *)

\* setupResult when the last call of the agent was not setup()
NoSetup == [result |-> "none", last |-> "none", rest |-> {}]

LockContents == {"absent", "empty"} \cup {ToString(q) : q \in {Self} \cup Others}

Init ==
    /\ web = None
    /\ params \in [serial_port : DevicePaths \cup {None},
                   retry_policy : {"retry-forever", "fail-fast"}]
    /\ present \in SUBSET DevicePaths
    /\ lockfile = [lf \in LockFiles |-> "absent"]
    /\ otherFh = [q \in Others |-> {}]
    /\ pc = "idle"
    /\ cands = <<>>
    /\ idx = 1
    /\ lock_fh = None
    /\ connection = None
    /\ ser = None
    /\ _port_lock_fh = None
    /\ state = NoKeys
    /\ garbage = {}
    /\ out = "none"
    /\ lastRead = "none"
    /\ tried = <<>>
    /\ setupResult = NoSetup
    /\ call = None
    /\ ret = None

---------------------------------------------------------------------------
(* setup(), lines 178-218, and auto_detect_port(), lines 126-176 *)

\* objects that are still open when the last reference to them goes away
Leak(objs) == {o \in objs : o # None /\ ~o.closed}

\* the candidates the loop of auto_detect_port has not come to
Rest == {cands[i] : i \in (idx + 1) .. Len(cands)}

\* setup() ends by raising `result`: its locals (and those of
\* auto_detect_port) go away, holding fh and conn; what is still open then
\* stays open until it is finalized.  setupResult keeps what the call
\* raised, the outcome of the last candidate it tried, and the candidates
\* it never came to.
Raise(result, outcome, fh, conn) ==
    /\ pc' = "idle"
    /\ setupResult' = [result |-> result, last |-> outcome, rest |-> Rest]
    /\ tried' = <<>>
    /\ lock_fh' = None
    /\ connection' = None
    /\ cands' = <<>>
    /\ idx' = 1
    /\ garbage' = garbage \cup Leak({fh, conn})
    /\ UNCHANGED <<ser, _port_lock_fh, state>>

\* `_port_lock_fh = lock_fh`, `ser = <connection>`, reset_input_buffer(),
\* state["n"] = 0, return: the tail of a successful setup().  The objects
\* the two globals referred to before lose their last reference.
Commit(conn) ==
    /\ pc' = "idle"
    /\ setupResult' = [result |-> "ok", last |-> "accepted", rest |-> Rest]
    /\ tried' = <<>>
    /\ _port_lock_fh' = lock_fh
    /\ ser' = conn
    /\ state' = [n |-> 0]
    /\ lock_fh' = None
    /\ connection' = None
    /\ cands' = <<>>
    /\ idx' = 1
    /\ garbage' \in Drop({_port_lock_fh, ser}, garbage)

\* mutant: the configured port is ignored, detection always runs
port_ignored(port) == FALSE

\* `if port:` (line 185): a device path was configured
port_given(port) == port # None

\* setup() is called: port = params.get("serial_port")
SetupCall ==
    /\ pc = "idle"
    /\ Cardinality(garbage) < MaxGarbage
    /\ tried' = <<>>
    /\ IF port_given(params.serial_port)
       THEN /\ pc' = "x_lock"
            /\ setupResult' = [result |-> "running", last |-> "none", rest |-> {}]
            /\ UNCHANGED <<cands, idx>>
       ELSE \E c \in ComportsOutcomes(present) :
              LET r == list_candidates(c, present) IN
              IF r.exc = "nothing"
              THEN /\ cands' = r.list
                   /\ idx' = 1
                   /\ pc' = "a_loop"
                   /\ setupResult' =
                        [result |-> "running", last |-> "none", rest |-> {}]
              ELSE \* the exception leaves auto_detect_port and setup
                   /\ pc' = "idle"
                   /\ setupResult' =
                        [result |-> r.exc, last |-> "enum_error", rest |-> {}]
                   /\ UNCHANGED <<cands, idx>>
    /\ out' = "none"
    /\ lastRead' = "none"
    /\ UNCHANGED <<params, present, lockfile, otherFh, lock_fh, connection,
                   ser, _port_lock_fh, state, garbage>>
    /\ UNCHANGED <<call, ret, web>>

\* for port_path in ...: lock_fh = _try_acquire_file_lock(port_path)
AutoTryLock ==
    /\ pc = "a_loop"
    /\ idx <= Len(cands)
    /\ \E openErr \in BOOLEAN :
         LET port_path == cands[idx]
             r == _try_acquire_file_lock(Self, port_path, openErr)
         IN /\ lockfile' = [lockfile EXCEPT ![LockPath(port_path)] = r.content]
            /\ CASE r.ret = "OSError" ->
                      \* not a BlockingIOError: leaves auto_detect_port and setup
                      Raise("OSError", "lock_error", lock_fh, connection)
                 [] r.ret = "None" ->
                      /\ lock_fh' = None
                      /\ tried' = Append(tried, <<port_path, "busy">>)
                      /\ idx' = idx + 1
                      /\ UNCHANGED <<pc, connection, cands, setupResult,
                                     ser, _port_lock_fh, state, garbage>>
                 [] r.ret = "fh" ->
                      /\ lock_fh' = Fh(port_path)
                      /\ pc' = "a_open"
                      /\ UNCHANGED <<tried, idx, connection, cands, setupResult,
                                     ser, _port_lock_fh, state, garbage>>
    /\ UNCHANGED <<params, present, otherFh, out, lastRead>>
    /\ UNCHANGED <<call, ret, web>>

\* the loop ends: raise RuntimeError("No Arduino serial port found.")
AutoExhausted ==
    /\ pc = "a_loop"
    /\ idx > Len(cands)
    /\ Raise("RuntimeError", "exhausted", lock_fh, connection)
    /\ UNCHANGED <<params, present, lockfile, otherFh, out, lastRead>>
    /\ UNCHANGED <<call, ret, web>>

\* connection = _open_serial_with_exclusive(port_path, ...), lines 142-154
AutoOpen ==
    /\ pc = "a_open"
    /\ \E opened \in (IF cands[idx] \in present THEN BOOLEAN ELSE {FALSE}) :
         IF opened
         THEN /\ connection' = Serial(cands[idx])
                        /\ pc' = "a_probe"
              /\ UNCHANGED <<lock_fh, idx, tried>>
         ELSE /\ connection' = None
              /\ lock_fh' = _release_file_lock(lock_fh)
              /\ tried' = Append(tried, <<cands[idx], "open_error">>)
              /\ idx' = idx + 1
              /\ pc' = "a_loop"
    /\ UNCHANGED <<params, present, lockfile, otherFh, cands, ser,
                   _port_lock_fh, state, garbage, out, lastRead, setupResult>>
    /\ UNCHANGED <<call, ret, web>>

\* auto_detect_port, lines 167-173: close the connection, release the lock
AutoReject(outcome) ==
    /\ connection' = close(connection)
    /\ lock_fh' = _release_file_lock(lock_fh)
    /\ tried' = Append(tried, <<cands[idx], outcome>>)
    /\ idx' = idx + 1
    /\ pc' = "a_loop"
    /\ UNCHANGED <<cands, setupResult, ser, _port_lock_fh, state, garbage>>

\* ok = _probe_for_valid_json(connection, max_lines=15, ...) and what
\* follows it (lines 156-173, 208-218)
AutoProbe ==
    /\ pc = "a_probe"
    /\ \E lines \in ProbeStreams(connection) :
         LET r == _probe_for_valid_json(lines, max_lines) IN
         CASE r.ret = "True" ->
                Commit([connection EXCEPT
                          !.accepted = SawValid(lines, r.consumed)])
           [] r.ret = "raise" -> AutoReject("probe_error")
           [] OTHER -> AutoReject("rejected")
    /\ UNCHANGED <<params, present, lockfile, otherFh, out, lastRead>>
    /\ UNCHANGED <<call, ret, web>>

\* explicit port: lock_fh = _try_acquire_file_lock(port), lines 188-190
ExplTryLock ==
    /\ pc = "x_lock"
    /\ \E openErr \in BOOLEAN :
         LET port == params.serial_port
             r == _try_acquire_file_lock(Self, port, openErr)
         IN /\ lockfile' = [lockfile EXCEPT ![LockPath(port)] = r.content]
            /\ CASE r.ret = "OSError" ->
                      Raise("OSError", "lock_error", None, None)
                 [] r.ret = "None" ->
                      Raise("RuntimeError", "busy", None, None)
                 [] r.ret = "fh" ->
                      /\ lock_fh' = Fh(port)
                      /\ pc' = "x_open"
                      /\ UNCHANGED <<tried, idx, connection, cands, setupResult,
                                     ser, _port_lock_fh, state, garbage>>
    /\ UNCHANGED <<params, present, otherFh, out, lastRead>>
    /\ UNCHANGED <<call, ret, web>>

\* explicit port: s = _open_serial_with_exclusive(port, ...), line 192; when
\* it raises, lines 203-205 release the lock and re-raise
ExplOpen ==
    /\ pc = "x_open"
    /\ \E opened \in (IF params.serial_port \in present THEN BOOLEAN ELSE {FALSE}) :
         IF opened
         THEN /\ connection' = Serial(params.serial_port)
                        /\ pc' = "x_probe"
              /\ UNCHANGED <<lock_fh, idx, cands, tried, setupResult,
                             ser, _port_lock_fh, state, garbage>>
         ELSE /\ Raise("SerialException", "open_error",
                       _release_file_lock(lock_fh), None)
    /\ UNCHANGED <<params, present, lockfile, otherFh, out, lastRead>>
    /\ UNCHANGED <<call, ret, web>>

\* explicit port: _probe_for_valid_json(s, max_lines=15, ...) and what
\* follows it (lines 193-205, 213-218)
ExplProbe ==
    /\ pc = "x_probe"
    /\ \E lines \in ProbeStreams(connection) :
         LET r == _probe_for_valid_json(lines, max_lines) IN
         CASE r.ret = "True" ->
                Commit([connection EXCEPT
                          !.accepted = SawValid(lines, r.consumed)])
           [] r.ret = "raise" ->
                \* except Exception: _release_file_lock(lock_fh); raise
                Raise("SerialException", "probe_error",
                      _release_file_lock(lock_fh), connection)
           [] OTHER ->
                \* s.close(); release; raise RuntimeError; the handler
                \* releases once more and re-raises
                Raise("RuntimeError", "rejected",
                      _release_file_lock(_release_file_lock(lock_fh)),
                      close(connection))
    /\ UNCHANGED <<params, present, lockfile, otherFh, out, lastRead>>
    /\ UNCHANGED <<call, ret, web>>

---------------------------------------------------------------------------
(* get_output(), lines 220-254 *)

\* mutant: the exception is raised again
except_reraise(exc) == "raised"

\* the except clauses of get_output: every exception becomes the marker
except_Exception(exc) == Marker

\* the value get_output returns for what readline() did
get_output(read) ==
    CASE read = "timeout" -> Marker
      [] read = "nonjson" -> Marker
      [] read = "malformed" -> except_Exception("JSONDecodeError")
      [] read = "valid" -> "record"
      [] read = "AttributeError" -> except_Exception("AttributeError")
      [] OTHER -> except_Exception("SerialException")

\* mutant: the counter is incremented before the line is parsed
n_counted_before_parse(read, n) ==
    IF read \in {"valid", "malformed"} THEN n + 1 ELSE n

\* state["n"] after get_output(): `state["n"] += 1` (line 240) comes after
\* the returns on an empty or non-JSON line and after json.loads succeeded
n_after(read, n) == IF read = "valid" THEN n + 1 ELSE n

GetOutput ==
    /\ pc = "idle"
    /\ \E read \in (IF ser = None THEN {"AttributeError"} ELSE ReadOutcomes(ser)) :
         /\ read = "valid" => state.n < MaxN
         /\ lastRead' = read
         /\ out' = get_output(read)
         /\ state' = IF ser = None THEN state
                     ELSE [state EXCEPT !.n = n_after(read, @)]
    /\ setupResult' = NoSetup
    /\ UNCHANGED <<params, present, lockfile, otherFh, pc, cands, idx, lock_fh,
                   connection, ser, _port_lock_fh, garbage, tried>>
    /\ UNCHANGED <<call, ret, web>>

---------------------------------------------------------------------------
(* The environment *)

\* a connection whose device goes away stays unusable
Kill(o, p) == IF IsSerial(o) /\ o.port = p THEN [o EXCEPT !.dead = TRUE] ELSE o

Unplug(p) ==
    /\ p \in present
    /\ present' = present \ {p}
    /\ ser' = Kill(ser, p)
    /\ connection' = Kill(connection, p)
    /\ garbage' = {Kill(o, p) : o \in garbage}
    /\ UNCHANGED <<params, lockfile, otherFh, pc, cands, idx, lock_fh,
                   _port_lock_fh, state, out, lastRead, tried, setupResult>>
    /\ UNCHANGED <<call, ret, web>>

Replug(p) ==
    /\ p \notin present
    /\ present' = present \cup {p}
    /\ UNCHANGED <<params, lockfile, otherFh, pc, cands, idx, lock_fh,
                   connection, ser, _port_lock_fh, state, garbage, out,
                   lastRead, tried, setupResult>>
    /\ UNCHANGED <<call, ret, web>>

\* an unreferenced file object is finalized: its descriptor is closed, which
\* drops its flock
Finalize(o) ==
    /\ o \in garbage
    /\ garbage' = garbage \ {o}
    /\ UNCHANGED <<params, present, lockfile, otherFh, pc, cands, idx, lock_fh,
                   connection, ser, _port_lock_fh, state, out, lastRead,
                   tried, setupResult>>
    /\ UNCHANGED <<call, ret, web>>

\* another process runs _try_acquire_file_lock(p) and keeps the handle
OtherAcquire(q, p) ==
    /\ \E openErr \in BOOLEAN :
         LET r == _try_acquire_file_lock(q, p, openErr) IN
         /\ lockfile' = [lockfile EXCEPT ![LockPath(p)] = r.content]
         /\ otherFh' = IF r.ret = "fh"
                       THEN [otherFh EXCEPT ![q] = @ \cup {LockPath(p)}]
                       ELSE otherFh
    /\ UNCHANGED <<params, present, pc, cands, idx, lock_fh, connection,
                   ser, _port_lock_fh, state, garbage, out, lastRead, tried,
                   setupResult>>
    /\ UNCHANGED <<call, ret, web>>

\* another process runs _release_file_lock on a handle it holds
OtherRelease(q, lf) ==
    /\ lf \in otherFh[q]
    /\ otherFh' = [otherFh EXCEPT ![q] = @ \ {lf}]
    /\ UNCHANGED <<params, present, lockfile, pc, cands, idx, lock_fh,
                   connection, ser, _port_lock_fh, state, garbage, out,
                   lastRead, tried, setupResult>>
    /\ UNCHANGED <<call, ret, web>>

---------------------------------------------------------------------------

Next ==
    \/ SetupCall
    \/ AutoTryLock
    \/ AutoExhausted
    \/ AutoOpen
    \/ AutoProbe
    \/ ExplTryLock
    \/ ExplOpen
    \/ ExplProbe
    \/ GetOutput
    \/ \E p \in DevicePaths : Unplug(p)
    \/ \E p \in DevicePaths : Replug(p)
    \/ \E o \in garbage : Finalize(o)
    \/ \E q \in Others, p \in DevicePaths : OtherAcquire(q, p)
    \/ \E q \in Others, lf \in LockFiles : OtherRelease(q, lf)

Spec == Init /\ [][Next]_vars

TypeOK ==
    /\ pc \in {"idle", "a_loop", "a_open", "a_probe", "x_lock", "x_open", "x_probe"}
    /\ state = NoKeys \/ state.n \in 0 .. MaxN
    /\ lockfile \in [LockFiles -> LockContents]
    /\ Cardinality(garbage) <= MaxGarbage

\* a step of a running setup()
SetupStep ==
    \/ AutoTryLock
    \/ AutoExhausted
    \/ AutoOpen
    \/ AutoProbe
    \/ ExplTryLock
    \/ ExplOpen
    \/ ExplProbe

\* the framework keeps calling get_output(), and a running setup() goes on
FairSpec == Spec /\ WF_vars(GetOutput) /\ WF_vars(SetupStep)

---------------------------------------------------------------------------
(* The functions of the module called on their own, on arguments drawn    *)
(* from bounded sets: the agent itself stays in its initial state         *)

\* what one readline() can do
LineKinds == {"timeout", "nonjson", "malformed", "valid", "ioerror"}

\* _probe_for_valid_json(connection, max_lines) on every line sequence of
\* every window up to MaxProbe
ProbeCalls ==
    UNION {{[fn |-> "_probe_for_valid_json", lines |-> l, max_lines |-> m] :
              l \in [1 .. m -> LineKinds]} : m \in 1 .. MaxProbe}

\* the member names and values of the JSON objects a device sends; values
\* are JSON tokens
JsonKeys == {"a", "processed"}
JsonVals == {"1", "true", "false"}

\* the text of a JSON object line: its members in the order written
JsonObjects == UNION {[1 .. n -> JsonKeys \X JsonVals] : n \in 0 .. MaxFields}

\* data = json.loads(raw): a dict; of two members with one name the later
\* one stays
json_loads(raw) ==
    [k \in {raw[i][1] : i \in DOMAIN raw} |->
        raw[CHOOSE i \in DOMAIN raw :
                /\ raw[i][1] = k
                /\ \A j \in DOMAIN raw : raw[j][1] = k => j <= i][2]]

\* data["processed"] = False
set_processed(data) ==
    [k \in DOMAIN data \cup {"processed"} |->
        IF k = "processed" THEN "false" ELSE data[k]]

\* json.dumps(data): the members of the text written
json_dumps(data) == {<<k, data[k]>> : k \in DOMAIN data}

\* get_output() on a connected agent whose readline() returns the object
\* line raw
GetOutputCalls == {[fn |-> "get_output", raw |-> o] : o \in JsonObjects}

\* successive get_output() calls on a connected agent whose readline()
\* calls do wire[1], wire[2], ... in turn; a line is known by its position
GetOutputRuns ==
    UNION {{[fn |-> "get_output*", wire |-> w] : w \in [1 .. n -> LineKinds]} :
             n \in 1 .. MaxWire}

\* _release_file_lock(fh), called MaxReleases times over, on no handle or
\* on the handle a successful _try_acquire_file_lock returned
ReleaseCalls ==
    {[fn |-> "_release_file_lock", fh |-> h] :
        h \in {None} \cup {Fh(p) : p \in DevicePaths}}

\* the path names the enumerator can come to list
Names == {common[i] : i \in DOMAIN common}

\* the snapshots of /dev: which names exist, and the device node each one
\* resolves to (a node resolves to itself, a symbolic link to a node)
Snapshots ==
    UNION {{t \in [E -> E] : \A x \in E : t[t[x]] = t[x]} : E \in SUBSET Names}

\* the device nodes of a snapshot
Nodes(t) == {x \in DOMAIN t : t[x] = x}

\* _list_candidate_ports() on every snapshot: comports() lists the device
\* nodes (not the links) in some order or raises, os.path.exists is true
\* of every name that exists
ListCalls ==
    UNION {{[fn |-> "_list_candidate_ports", target |-> t, comports |-> c] :
              c \in ComportsOutcomes(Nodes(t))} : t \in Snapshots}

\* json.dumps({"processed": False}), as the members of the text
MarkerFields == json_dumps(set_processed(<<>>))

\* what get_output() of source_arduino.py gives its caller when readline()
\* does `read` (raw: the object line, when it is a valid one): the
\* exception raised, if any, and the members of the text returned
get_output_text(read, raw) ==
    LET r == get_output(read) IN
    IF r = "record"
    THEN [exc |-> "nothing",
          fields |-> json_dumps(set_processed(json_loads(raw)))]
    ELSE IF r = Marker THEN [exc |-> "nothing", fields |-> MarkerFields]
    ELSE [exc |-> r, fields |-> {}]

\* Arduino_source.py, lines 22-56: get_output() of the plain variant

\* mutant: the variant has no handler for a line that does not parse
A_except_missing(exc) == "raised"

\* the except clauses of the variant (lines 48-56)
A_except_Exception(exc) == Marker

\* the variant's get_output(), by what readline() did (lines 24-56)
A_get_output(read) ==
    IF read = "AttributeError" THEN A_except_Exception("AttributeError")
    ELSE IF read = "ioerror" THEN A_except_Exception("SerialException")
    ELSE IF read = "timeout" THEN Marker
    ELSE IF read = "nonjson" THEN Marker
    ELSE IF read = "malformed" THEN A_except_Exception("JSONDecodeError")
    ELSE "record"

\* the variant's state["n"] after the call: `state["n"] += 1` (line 42)
\* follows json.loads (line 39)
A_n_after(read, n) ==
    IF read \in {"AttributeError", "ioerror", "timeout", "nonjson", "malformed"}
    THEN n ELSE n + 1

\* the variant's data["processed"] = False (line 45)
A_set_processed(data) ==
    [k \in {"processed"} \cup DOMAIN data |->
        IF k # "processed" THEN data[k] ELSE "false"]

A_get_output_text(read, raw) ==
    LET r == A_get_output(read) IN
    IF r = "record"
    THEN [exc |-> "nothing",
          fields |-> json_dumps(A_set_processed(json_loads(raw)))]
    ELSE IF r = Marker THEN [exc |-> "nothing", fields |-> MarkerFields]
    ELSE [exc |-> r, fields |-> {}]

\* one get_output() of each variant on the same input: ser unset or open,
\* what readline() does, the counter before the call
BothCalls ==
    {[fn |-> "get_output x2", read |-> "AttributeError", raw |-> <<>>, n |-> n] :
        n \in 0 .. MaxN}
    \cup {[fn |-> "get_output x2", read |-> r, raw |-> <<>>, n |-> n] :
             r \in LineKinds \ {"valid"}, n \in 0 .. MaxN}
    \cup {[fn |-> "get_output x2", read |-> "valid", raw |-> o, n |-> n] :
             o \in JsonObjects, n \in 0 .. MaxN}

\* auto_detect_port() of a fresh agent over the candidates ACM0, USB0, on
\* a pyserial with or without exclusive open
DetectCalls ==
    {[fn |-> "auto_detect_port", pyserial |-> v] :
        v \in {"exclusive supported", "exclusive unknown"}}

UnitCalls ==
    ProbeCalls \cup GetOutputCalls \cup GetOutputRuns \cup ReleaseCalls
    \cup ListCalls \cup DetectCalls \cup BothCalls

UnitInit ==
    /\ web = None
    /\ call \in UnitCalls
    /\ ret = None
    /\ params = [serial_port |-> None, retry_policy |-> "retry-forever"]
    /\ present = DevicePaths
    /\ otherFh = [q \in Others |-> {}]
    /\ IF call.fn = "auto_detect_port"
       THEN /\ pc = "a_loop"
            /\ cands = <<ACM0, USB0>>
            /\ setupResult = [result |-> "running", last |-> "none", rest |-> {}]
       ELSE /\ pc = "idle"
            /\ cands = <<>>
            /\ setupResult = NoSetup
    /\ idx = 1
    /\ connection = None
    /\ CASE call.fn \in {"get_output", "get_output*"} ->
              \* the agent is connected on ACM0
              /\ ser = [Serial(ACM0) EXCEPT !.accepted = TRUE]
              /\ _port_lock_fh = Fh(ACM0)
              /\ lock_fh = None
              /\ lockfile = [lf \in LockFiles |->
                               IF lf = LockPath(ACM0) THEN ToString(Self)
                               ELSE "absent"]
              /\ state = [n |-> 0]
         [] call.fn = "_release_file_lock" /\ call.fh # None ->
              \* the handle is the lock_fh of a setup() under way
              /\ ser = None
              /\ _port_lock_fh = None
              /\ lock_fh = call.fh
              /\ lockfile = [lf \in LockFiles |->
                               IF lf = LockPath(call.fh.path) THEN ToString(Self)
                               ELSE "absent"]
              /\ state = NoKeys
         [] OTHER ->
              /\ ser = None
              /\ _port_lock_fh = None
              /\ lock_fh = None
              /\ lockfile = [lf \in LockFiles |-> "absent"]
              /\ state = NoKeys
    /\ garbage = {}
    /\ out = "none"
    /\ lastRead = "none"
    /\ tried = <<>>

CallProbe ==
    /\ call.fn = "_probe_for_valid_json"
    /\ ret = None
    /\ ret' = _probe_for_valid_json(call.lines, call.max_lines)
    /\ UNCHANGED <<agentVars, call, web>>

\* lines 237-244 of get_output() (lines 39-46 of Arduino_source.py)
CallGetOutput ==
    /\ call.fn = "get_output"
    /\ ret = None
    /\ ret' = [fields |-> json_dumps(set_processed(json_loads(call.raw)))]
    /\ state' = [state EXCEPT !.n = n_after("valid", @)]
    /\ lastRead' = "valid"
    /\ out' = get_output("valid")
    /\ UNCHANGED <<params, present, lockfile, otherFh, pc, cands, idx, lock_fh,
                   connection, ser, _port_lock_fh, garbage, tried, setupResult,
                   call, web>>

\* mutant: the line is looked at but stays in the input buffer
readline_peek(pos) == pos

\* raw_bytes = ser.readline() (line 224), the only read of get_output():
\* the position in the stream after the call
readline_pos(pos) == pos + 1

\* the next get_output() of a run: it returns what the one readline() gave
CallGetOutputNext ==
    /\ call.fn = "get_output*"
    /\ LET r == IF ret = None THEN [pos |-> 0, calls |-> 0, records |-> <<>>]
                ELSE ret
           line == call.wire[r.pos + 1]
       IN /\ r.calls < Len(call.wire)
          /\ ret' = [pos |-> readline_pos(r.pos),
                     calls |-> r.calls + 1,
                     records |-> IF get_output(line) = "record"
                                 THEN Append(r.records, r.pos + 1)
                                 ELSE r.records]
          /\ state' = [state EXCEPT !.n = n_after(line, @)]
          /\ lastRead' = line
          /\ out' = get_output(line)
    /\ UNCHANGED <<params, present, lockfile, otherFh, pc, cands, idx, lock_fh,
                   connection, ser, _port_lock_fh, garbage, tried, setupResult,
                   call, web>>

\* _release_file_lock(lock_fh), once more
CallRelease ==
    /\ call.fn = "_release_file_lock"
    /\ (IF ret = None THEN 0 ELSE ret.times) < MaxReleases
    /\ ret' = [raised |-> release_raises(lock_fh),
               times |-> (IF ret = None THEN 0 ELSE ret.times) + 1]
    /\ lock_fh' = _release_file_lock(lock_fh)
    /\ UNCHANGED <<params, present, lockfile, otherFh, pc, cands, idx,
                   connection, ser, _port_lock_fh, state, garbage, out,
                   lastRead, tried, setupResult, call, web>>

CallList ==
    /\ call.fn = "_list_candidate_ports"
    /\ ret = None
    /\ ret' = list_candidates(call.comports, DOMAIN call.target)
    /\ UNCHANGED <<agentVars, call, web>>

\* the same call made on each variant
CallBoth ==
    /\ call.fn = "get_output x2"
    /\ ret = None
    /\ ret' = [Arduino_source |->
                 [text |-> A_get_output_text(call.read, call.raw),
                  n |-> A_n_after(call.read, call.n)],
               source_arduino |->
                 [text |-> get_output_text(call.read, call.raw),
                  n |-> n_after(call.read, call.n)]]
    /\ UNCHANGED <<agentVars, call, web>>

UnitNext ==
    \/ CallProbe
    \/ CallGetOutput
    \/ CallGetOutputNext
    \/ CallRelease
    \/ CallList
    \/ CallBoth
    \/ AutoTryLock
    \/ AutoOpen
    \/ AutoProbe
    \/ AutoExhausted

UnitSpec == UnitInit /\ [][UnitNext]_vars

---------------------------------------------------------------------------
(* The plotting sink, src/Python/sink_Arduino_Plot.py: the framework      *)
(* globals params and state, setup() and deal_with_data().  The other     *)
(* plotting sinks (sink_NodeMCU.py, Python_Arduino_sink.py) fill their    *)
(* buffers by the same statements, over ten channels.                     *)

\* the sample values of the packets
Samples == {0, 1}

\* the packets the broker may deliver as `data`: which of the keys millis
\* and data they have, which channels data['data'] has, and the sample
\* value they carry
Packets ==
    {[has |-> h, chans |-> c, v |-> v] :
        h \in SUBSET {"millis", "data"}, c \in SUBSET {"I1", "I2", "I3"},
        v \in Samples}

\* deque(maxlen=max_len).append(x): a full deque drops its oldest element
deque_append(buf, x, maxlen) ==
    IF Len(buf) >= maxlen THEN Append(Tail(buf), x) ELSE Append(buf, x)

\* deal_with_data() (lines 77-92) on the buffers st: the buffers afterwards
\* and the exception that left the function, if one did.  Only the lookup
\* of millis and data is inside the try; d['I1'], d['I2'], d['I3'] are not
deal_with_data(st, data, maxlen) ==
    IF ~({"millis", "data"} \subseteq data.has)
    THEN [state |-> st, exc |-> "nothing"]
    ELSE
    LET s0 == [st EXCEPT !.t_data = deque_append(@, data.v, maxlen)] IN
    IF "I1" \notin data.chans THEN [state |-> s0, exc |-> "KeyError"]
    ELSE
    LET s1 == [s0 EXCEPT !.I1 = deque_append(@, data.v, maxlen)] IN
    IF "I2" \notin data.chans THEN [state |-> s1, exc |-> "KeyError"]
    ELSE
    LET s2 == [s1 EXCEPT !.I2 = deque_append(@, data.v, maxlen)] IN
    IF "I3" \notin data.chans THEN [state |-> s2, exc |-> "KeyError"]
    ELSE [state |-> [s2 EXCEPT !.I3 = deque_append(@, data.v, maxlen)],
          exc |-> "nothing"]

\* the sink agent is loaded with some max_len; setup() has not run yet
PlotInit ==
    /\ web = None
    /\ call = [fn |-> "sink_Arduino_Plot"]
    /\ ret = None
    /\ params \in {[max_len |-> m] : m \in 1 .. MaxLen}
    /\ state = NoKeys
    /\ present = DevicePaths
    /\ lockfile = [lf \in LockFiles |-> "absent"]
    /\ otherFh = [q \in Others |-> {}]
    /\ pc = "idle"
    /\ cands = <<>>
    /\ idx = 1
    /\ lock_fh = None
    /\ connection = None
    /\ ser = None
    /\ _port_lock_fh = None
    /\ garbage = {}
    /\ out = "none"
    /\ lastRead = "none"
    /\ tried = <<>>
    /\ setupResult = NoSetup

\* setup(), lines 33-41: for k in keys: state[k] = deque(maxlen=max_len)
PlotSetup ==
    /\ state = NoKeys
    /\ state' = [t_data |-> <<>>, I1 |-> <<>>, I2 |-> <<>>, I3 |-> <<>>]
    /\ UNCHANGED <<params, present, lockfile, otherFh, pc, cands, idx, lock_fh,
                   connection, ser, _port_lock_fh, garbage, out, lastRead,
                   tried, setupResult, call, ret, web>>

\* a packet arrives: deal_with_data()
DealWithData ==
    /\ state # NoKeys
    /\ \E data \in Packets :
         LET r == deal_with_data(state, data, params.max_len) IN
         /\ state' = r.state
         /\ ret' = [exc |-> r.exc]
    /\ UNCHANGED <<params, present, lockfile, otherFh, pc, cands, idx, lock_fh,
                   connection, ser, _port_lock_fh, garbage, out, lastRead,
                   tried, setupResult, call, web>>

PlotNext ==
    \/ PlotSetup
    \/ DealWithData

PlotSpec == PlotInit /\ [][PlotNext]_vars

---------------------------------------------------------------------------
(* The web dashboard sink, src/Python/sink_arduino_web.py: the agent's    *)
(* thread runs deal_with_data(), the daemon thread started by setup()     *)
(* serves GET /api/readings.  The threads interleave between bytecodes:   *)
(* the server loads the global once and then reads the dict it got field  *)
(* by field while the agent may run.                                      *)

\* the channels of a packet
Chans == {"I1", "I2", "I3"}

\* the keys of latest_readings, in the order the dict is built and dumped
Fields == <<"I1", "I2", "I3", "timestamp">>

\* the timestamp "" of the initial readings; strftime("%H:%M:%S") of the
\* clock gives the times 1, 2, ..., one per second
NoTime == 0

\* latest_readings as the module defines it (lines 24-29)
initial_readings == [I1 |-> 0, I2 |-> 0, I3 |-> 0, timestamp |-> NoTime]

\* the packets: data['data'] is a dict, is missing, or is not a dict; in a
\* dict each channel is a number, is missing, or is a value float() rejects
WebPackets ==
    {p \in [data : {"dict"}, kind : [Chans -> {"number", "missing", "bad"}],
            vals : [Chans -> Samples \cup {0}]] :
        \A c \in Chans : p.kind[c] # "number" => p.vals[c] = 0}
    \cup {[data |-> d, kind |-> [c \in Chans |-> "missing"],
           vals |-> [c \in Chans |-> 0]] : d \in {"missing", "not a dict"}}

\* lines 161-168: payload = data.get('data', {}); float(payload.get(c, 0.0))
\* for the three channels; any exception is caught, and the function returns
parse(data) ==
    IF data.data = "not a dict"
    THEN [exc |-> "AttributeError", I1 |-> 0, I2 |-> 0, I3 |-> 0]
    ELSE IF \E c \in Chans : data.kind[c] = "bad"
    THEN [exc |-> "ValueError", I1 |-> 0, I2 |-> 0, I3 |-> 0]
    ELSE LET get(c) == IF data.kind[c] = "number" THEN data.vals[c] ELSE 0 IN
         [exc |-> "nothing", I1 |-> get("I1"), I2 |-> get("I2"),
          I3 |-> get("I3")]

\* the dict latest_readings would be updated in place (not what line 171 does)
update_in_place(heap, ref, d) ==
    [heap |-> [heap EXCEPT ![ref] = d], ref |-> ref]

\* line 171, latest_readings = {...}: a new dict object is built and the
\* global is bound to it by one store; the old object is not touched
store_global(heap, ref, d) ==
    [heap |-> Append(heap, d), ref |-> Len(heap) + 1]

\* the dict the global latest_readings refers to
Readings == web.heap[web.latest_readings]

\* the sink agent is loaded: the module body has run, setup() has not
WebInit ==
    /\ call = [fn |-> "sink_arduino_web"]
    /\ ret = None
    /\ web = [latest_readings |-> 1, heap |-> <<initial_readings>>,
              published |-> {initial_readings}, clock |-> 1, packets |-> 0,
              srv |-> [pc |-> "not started", ref |-> 0, got |-> <<>>],
              response |-> None]
    /\ params = [serial_port |-> None, retry_policy |-> "retry-forever"]
    /\ state = NoKeys
    /\ present = DevicePaths
    /\ lockfile = [lf \in LockFiles |-> "absent"]
    /\ otherFh = [q \in Others |-> {}]
    /\ pc = "idle"
    /\ cands = <<>>
    /\ idx = 1
    /\ lock_fh = None
    /\ connection = None
    /\ ser = None
    /\ _port_lock_fh = None
    /\ garbage = {}
    /\ out = "none"
    /\ lastRead = "none"
    /\ tried = <<>>
    /\ setupResult = NoSetup

\* setup(), lines 152-157: starts the daemon thread run_web_server
WebSetup ==
    /\ web.srv.pc = "not started"
    /\ web' = [web EXCEPT !.srv.pc = "idle"]
    /\ UNCHANGED <<agentVars, call, ret>>

\* a packet arrives: deal_with_data(), lines 159-176.  The clock has second
\* resolution, so two packets may get the same timestamp
WebDealWithData ==
    /\ web.srv.pc # "not started"
    /\ web.packets < MaxPackets
    /\ \E data \in WebPackets, now \in {web.clock, web.clock + 1} :
         LET r == parse(data)
             d == [I1 |-> r.I1, I2 |-> r.I2, I3 |-> r.I3, timestamp |-> now]
             st == store_global(web.heap, web.latest_readings, d)
         IN  /\ ret' = [exc |-> r.exc]
             /\ IF r.exc # "nothing"
                THEN web' = [web EXCEPT !.clock = now, !.packets = @ + 1]
                ELSE web' = [web EXCEPT !.clock = now, !.packets = @ + 1,
                                        !.heap = st.heap,
                                        !.latest_readings = st.ref,
                                        !.published = @ \cup {d}]
    /\ UNCHANGED <<agentVars, call>>

\* GET /api/readings, line 146: the global latest_readings is loaded
ApiLoad ==
    /\ web.srv.pc = "idle"
    /\ web' = [web EXCEPT !.srv = [pc |-> "jsonify",
                                   ref |-> web.latest_readings, got |-> <<>>]]
    /\ UNCHANGED <<agentVars, call, ret>>

\* jsonify(...) reads the next field of the dict it was given
ApiDump ==
    /\ web.srv.pc = "jsonify"
    /\ Len(web.srv.got) < Len(Fields)
    /\ web' = [web EXCEPT !.srv.got =
                   Append(@, web.heap[web.srv.ref][Fields[Len(@) + 1]])]
    /\ UNCHANGED <<agentVars, call, ret>>

\* the response is sent
ApiRespond ==
    /\ web.srv.pc = "jsonify"
    /\ Len(web.srv.got) = Len(Fields)
    /\ web' = [web EXCEPT !.response = [I1 |-> web.srv.got[1],
                                        I2 |-> web.srv.got[2],
                                        I3 |-> web.srv.got[3],
                                        timestamp |-> web.srv.got[4]],
                          !.srv = [pc |-> "idle", ref |-> 0, got |-> <<>>]]
    /\ UNCHANGED <<agentVars, call, ret>>

WebNext ==
    \/ WebSetup
    \/ WebDealWithData
    \/ ApiLoad
    \/ ApiDump
    \/ ApiRespond

WebSpec == WebInit /\ [][WebNext]_vars

---------------------------------------------------------------------------
(* Claims *)

Raised == setupResult.result \in {"RuntimeError", "OSError", "SerialException"}

\* C1, first half: at most one open file description holds the flock of a
\* lock file, over all processes.
MutexInv == \A lf \in LockFiles : Cardinality(Holders(lf)) <= 1

\* C1, second half: while a lock file is locked, no step (in particular no
\* acquire of another process) adds a holder.
NoGrantWhileHeld ==
    \A lf \in LockFiles : Holders(lf) # {} => Holders(lf)' \subseteq Holders(lf)

\* C1: mutual exclusion without waiting: at most one process holds the lock
\* of a device path at any time, and an acquire made while the lock is held
\* grants nothing (it returns busy in the same step).
C1_MutualExclusion == []MutexInv /\ [][NoGrantWhileHeld]_vars

\* C1 witness: the agent was refused a lock (busy) that another process
\* holds at this moment.
C1_Witness ==
    \E q \in Others, i \in 1 .. Len(tried) :
        tried[i][2] = "busy" /\ LockPath(tried[i][1]) \in otherFh[q]

\* C2 (as claimed): auto-detection reports failure only when every
\* candidate of the list was tried and none passed lock, open and probe: at
\* a raise no candidate is left untried, least of all one that is plugged in
\* and whose lock is free.
C2_RaisesOnlyWhenExhausted ==
    (params.serial_port = None /\ Raised) =>
        \A p \in setupResult.rest : p \notin present \/ Holders(LockPath(p)) # {}

\* C3 (as claimed): every open serial connection of the agent is on a path
\* whose lock the agent holds.
C3_ConnectionImpliesLock ==
    \A c \in SelfConns : \E h \in SelfFhs : h.path = c.port

\* C4 (as claimed): the agent holds at most one device-path lock.
C4_AtMostOneLock == Cardinality(SelfFhs) <= 1

\* C5: the connection get_output() reads from is open and is one on which
\* the probe saw a well-formed JSON object line.
C5_SerIsValidated == ser # None => (ser.accepted /\ ~ser.closed)

\* C5 witness: get_output() returned a record read through ser.
C5_Witness == ser # None /\ out = "record" /\ ser.accepted

\* C6 (as claimed): after an I/O fault in get_output() the agent holds no
\* lock and no open connection.
C6_FaultReleases ==
    (ser # None /\ lastRead = "ioerror") => (SelfFhs = {} /\ SelfConns = {})

\* C7: get_output() raises nothing: it returns the marker object for every
\* read outcome but a valid line, and a record for a valid line.
C7_GetOutputNeverFails ==
    /\ out \in {"none", Marker, "record"}
    /\ lastRead \in {"timeout", "nonjson", "malformed", "ioerror",
                     "AttributeError"} => out = Marker
    /\ lastRead = "valid" => out = "record"

\* C7 witness: a read on the bound connection raised and the caller got the
\* marker.
C7_Witness == ser # None /\ lastRead = "ioerror" /\ out = Marker

\* C8 (as claimed): under retry-forever, once the bound connection is
\* broken and its device is back, the agent eventually acquires anew and
\* ser is a working connection again.
C8_RetryForever ==
    [](( /\ params.retry_policy = "retry-forever"
         /\ ser # None /\ ser.dead /\ lastRead = "ioerror"
         /\ ser.port \in present)
        => <>(ser # None /\ (~ser.dead \/ ser.port \notin present)))

\* C9 (as claimed): under fail-fast an I/O fault in get_output() is
\* signalled to the caller.
C9_FailFastSignals ==
    (params.retry_policy = "fail-fast" /\ ser # None /\ lastRead = "ioerror")
        => out = "raised"

\* C10 (as claimed): under retry-forever the get_output() call that follows
\* an I/O fault returns NoData.
C10_ThrottledNoData ==
    [][(/\ params.retry_policy = "retry-forever"
        /\ ser # None /\ lastRead = "ioerror"
        /\ GetOutput) => out' = Marker]_vars

\* the positions inside auto_detect_port
AutoPcs == {"a_loop", "a_open", "a_probe"}

\* C11, state part: with a configured device path the agent is never inside
\* auto_detect_port, has no candidate list, and every lock handle and
\* serial connection it has open is on the configured path.
ExplicitOnly ==
    params.serial_port # None =>
        /\ pc \notin AutoPcs
        /\ cands = <<>>
        /\ \A h \in SelfFhs : h.path = params.serial_port
        /\ \A c \in SelfConns : c.port = params.serial_port

\* C11, step part: a step of setup() on the configured path that finds the
\* lock held, fails to open the device, or ends the probe, ends setup():
\* with an error and ser untouched, or with ser bound to the configured
\* path after a validated probe.  No step goes on to detection.
ExplicitTerminal ==
    params.serial_port # None =>
        /\ (pc = "x_lock" /\ pc' # pc
              /\ Holders(LockPath(params.serial_port)) # {})
           => (pc' = "idle" /\ Raised' /\ ser' = ser)
        /\ (pc = "x_open" /\ pc' # pc /\ connection' = None)
           => (pc' = "idle" /\ Raised' /\ ser' = ser)
        /\ (pc = "x_probe" /\ pc' # pc)
           => /\ pc' = "idle"
              /\ \/ Raised' /\ ser' = ser
                 \/ /\ setupResult'.result = "ok"
                    /\ ser' = [connection EXCEPT !.accepted = TRUE]
                    /\ ser'.port = params.serial_port

\* C11: an explicit device path is exclusive and terminal: the enumerator
\* is never consulted, no other path is locked or opened, and a busy lock,
\* a failed open or a probe without valid JSON makes setup() report failure
\* with no fallback to detection.
C11_ExplicitTerminal == []ExplicitOnly /\ [][ExplicitTerminal]_vars

\* C11 witness: setup() on a configured path ended with an error after the
\* probe window passed without valid JSON.
C11_Witness ==
    /\ params.serial_port # None
    /\ Raised /\ setupResult.last = "rejected"
    /\ pc = "idle"

\* scenario A: a fresh agent detects over two candidates and is at the first
ScenarioA ==
    /\ params.serial_port = None
    /\ ser = None /\ _port_lock_fh = None /\ garbage = {}
    /\ Len(cands) = 2 /\ idx = 1

\* the step of auto_detect_port that finds the candidate busy: the lock
\* file is locked (line 138), or the device is there and its exclusive open
\* is refused (lines 145-150)
FoundBusy ==
    \/ pc = "a_loop" /\ idx' = idx + 1
    \/ pc = "a_open" /\ idx' = idx + 1 /\ cands[idx] \in present

\* the agent holds a lock handle on port_path
HoldsLock(port_path) == \E h \in SelfFhs : h.path = port_path

\* C12 (as claimed): in scenario A the agent holds the first path's lock
\* neither before nor after the step that finds the first path busy, and
\* when the second path then validates, setup() ends bound to the second
\* path holding the second path's lock only.
C12_ScenarioA ==
    [][/\ (ScenarioA /\ FoundBusy)
          => (~HoldsLock(cands[1]) /\ ~HoldsLock(cands[1])')
       /\ (/\ pc = "a_probe" /\ Len(cands) = 2 /\ idx = 2 /\ Len(tried) = 1
           /\ tried[1][2] \in {"busy", "open_error"}
           /\ setupResult'.result = "ok")
          => (/\ ser'.port = cands[2]
              /\ _port_lock_fh'.path = cands[2]
              /\ ~HoldsLock(cands[1])')]_vars

\* position of the first well-formed JSON object line among the first maxl
\* lines, 0 when there is none
FirstValid(lines, maxl) ==
    IF \E i \in 1 .. maxl : lines[i] = "valid"
    THEN CHOOSE i \in 1 .. maxl :
             lines[i] = "valid" /\ \A j \in 1 .. (i - 1) : lines[j] # "valid"
    ELSE 0

\* a probe call has returned on a stream of lines (no read raised)
ProbeReturned ==
    /\ call.fn = "_probe_for_valid_json"
    /\ ret # None
    /\ \A i \in 1 .. call.max_lines : call.lines[i] # "ioerror"

\* C13: the probe stops at the first success: when the first well-formed
\* JSON object line is the k-th line read, k <= max_lines, it returns True
\* after exactly k reads; when there is none in the window (empty timeout
\* reads counted), it makes exactly max_lines reads and returns False.
C13_ProbeShortCircuits ==
    ProbeReturned =>
        LET k == FirstValid(call.lines, call.max_lines) IN
        IF k > 0
        THEN ret.ret = "True" /\ ret.consumed = k
        ELSE ret.ret = "False" /\ ret.consumed = call.max_lines

\* C13 witness: three garbage lines, then a valid line, window of 5: True
\* after 4 reads.
C13_Witness ==
    /\ ProbeReturned
    /\ call.max_lines = 5
    /\ call.lines = <<"nonjson", "nonjson", "nonjson", "valid", "valid">>
    /\ ret = [ret |-> "True", consumed |-> 4]

\* the stream that emits nothing during a window of m reads
Silent(m) == [i \in 1 .. m |-> "timeout"]

\* C14 (as claimed): a probe rejection carries its reason: what the probe
\* returns to its caller on a stream of only garbage lines differs from
\* what it returns on a stream that emits nothing in the same window.
C14_RejectionCarriesReason ==
    (/\ ProbeReturned
     /\ \A i \in 1 .. call.max_lines : call.lines[i] \in {"nonjson", "malformed"})
    => ret.ret # _probe_for_valid_json(Silent(call.max_lines), call.max_lines).ret

\* the members of the JSON object a line denotes (of two members with one
\* name the later one counts)
SourceFields(raw) ==
    {raw[i] : i \in {j \in DOMAIN raw :
                        \A m \in DOMAIN raw : raw[m][1] = raw[j][1] => m <= j}}

\* C15 (as claimed): the Record get_output() returns for a valid JSON
\* object line has every member of the source object with its value, and
\* differs from the source by exactly one added member, processed = false;
\* this for every object, also one that has a member processed already.
C15_RecordRoundTrip ==
    (call.fn = "get_output" /\ ret # None) =>
        LET S == SourceFields(call.raw) IN
        /\ S \subseteq ret.fields
        /\ ret.fields \ S = {<<"processed", "false">>}

\* the reads of get_output() that give a bad line: empty, not starting
\* with "{", or not parsable
BadLines == {"timeout", "nonjson", "malformed"}

\* C16: a bad line changes no state: get_output() on an empty, non-JSON or
\* unparsable line returns the marker and leaves connection, lock and
\* state["n"] as they were; a returned record adds exactly one to
\* state["n"]; nothing else changes state["n"] but a successful setup(),
\* which sets it to 0: it counts the records since setup() and never
\* decreases.
C16_BadLineChangesNothing ==
    [][/\ (GetOutput /\ lastRead' \in BadLines)
          => /\ out' = Marker
             /\ UNCHANGED <<ser, _port_lock_fh, state, lockfile, garbage,
                            connection, lock_fh>>
       /\ (GetOutput /\ out' = "record") => state'.n = state.n + 1
       /\ (state' # state)
          => \/ GetOutput /\ out' = "record"
             \/ setupResult'.result = "ok" /\ pc # "idle" /\ state' = [n |-> 0]
      ]_vars

\* C16 witness: after a counted record, get_output() read an unparsable
\* line and returned the marker; the counter still says 1.
C16_Witness ==
    /\ ser # None /\ state = [n |-> 1]
    /\ lastRead = "malformed" /\ out = Marker

\* _release_file_lock has been called on the handle at least once
Released == call.fn = "_release_file_lock" /\ ret # None

\* C17, state part: no release raises; after any number of releases the
\* agent does not hold the lock of any path, and another process that
\* tries to acquire it gets it.
ReleasedIsFree ==
    Released =>
        /\ ret.raised = "nothing"
        /\ \A p \in DevicePaths :
              /\ ~HoldsLock(p)
              /\ \A q \in Others : _try_acquire_file_lock(q, p, FALSE).ret = "fh"

\* C17, step part: a release after the first one, and a release of no
\* handle (None), change nothing.
ReleaseAgainNoEffect ==
    (CallRelease /\ (Released \/ call.fh = None))
        => /\ UNCHANGED agentVars
           /\ ret'.raised = "nothing"

\* C17: _release_file_lock is idempotent and raises nothing: called twice
\* on one handle, or on None, it has no effect beyond the first release;
\* afterwards the lock is not held by the agent and another process can
\* acquire it.
C17_ReleaseIdempotent == []ReleasedIsFree /\ [][ReleaseAgainNoEffect]_vars

\* C17 witness: a handle that held the lock has been released twice.
C17_Witness ==
    /\ Released /\ ret.times = 2
    /\ call.fh # None /\ lock_fh = [call.fh EXCEPT !.closed = TRUE]

\* the enumerator has returned a list
Listed ==
    call.fn = "_list_candidate_ports" /\ ret # None /\ ret.exc = "nothing"

\* C18 (as claimed): candidates are deduplicated by identity: no two
\* entries of the returned list resolve to the same device node, also when
\* one comes from comports() and the other from the fixed list.
C18_DedupByIdentity ==
    Listed =>
        \A i, j \in DOMAIN ret.list :
            i # j => call.target[ret.list[i]] # call.target[ret.list[j]]

\* C19 (as claimed): the enumerator never fails: whatever the port
\* registry or the existence check does, the call returns a list and
\* raises nothing; a source that failed contributes nothing.
C19_EnumeratorNeverFails ==
    (call.fn = "_list_candidate_ports" /\ ret # None) =>
        /\ ret.exc = "nothing"
        /\ call.comports.exc # "nothing" =>
              ret.list = _list_candidate_ports(<<>>, DOMAIN call.target)

\* C20 (as claimed): whatever goes wrong for one candidate stays inside
\* the loop of auto_detect_port: the loop is left only by the return of a
\* validated connection, or, after the last candidate, by the one
\* RuntimeError that says no port was found.
C20_ErrorsStayInLoop ==
    [][(pc \in AutoPcs /\ pc' \notin AutoPcs)
       => \/ setupResult'.result = "ok"
          \/ /\ idx > Len(cands)
             /\ setupResult'.result = "RuntimeError"
             /\ setupResult'.last = "exhausted"]_vars

\* C21: records come out in wire order: over a run of get_output() calls
\* the lines returned as Records are valid lines already read, each later
\* on the wire than the one returned before it (an order-preserving
\* subsequence, no line twice), and the calls have consumed at most one
\* line each.
C21_RecordOrdering ==
    (call.fn = "get_output*" /\ ret # None) =>
        /\ \A i \in DOMAIN ret.records :
              /\ ret.records[i] \in 1 .. ret.pos
              /\ call.wire[ret.records[i]] = "valid"
        /\ \A i, j \in DOMAIN ret.records :
              i < j => ret.records[i] < ret.records[j]
        /\ ret.pos <= ret.calls
        /\ Len(ret.records) = state.n

\* C21 witness: of the lines valid, garbage, valid the first and the third
\* were returned, in this order.
C21_Witness ==
    /\ call.fn = "get_output*" /\ ret # None
    /\ call.wire = <<"valid", "nonjson", "valid">>
    /\ ret.records = <<1, 3>>

\* C22 (as claimed): acquire tries the exclusive open first and takes the
\* lock file only as a fallback: when the device is about to be opened the
\* agent holds no lock file, and where exclusive open is supported no lock
\* file is created or locked at all.
C22_ExclusiveOpenFirst ==
    call.fn = "auto_detect_port" =>
        /\ pc = "a_open" => SelfFhs = {}
        /\ _open_serial_with_exclusive(call.pyserial) = "exclusive"
           => /\ SelfFhs = {}
              /\ \A lf \in LockFiles : lockfile[lf] = "absent"

\* C23 (as claimed): the lock file names its owner: whenever a process
\* holds the flock of a lock file, the content of the file is that
\* process's identifier, whatever acquire attempts others have made since.
C23_LockFileNamesOwner ==
    \A lf \in LockFiles : \A h \in Holders(lf) : lockfile[lf] = ToString(h[1])

\* position of a path in the fixed fallback list
CommonIdx(p) == CHOOSE i \in DOMAIN common : common[i] = p

\* C24: candidate ordering: the list depends on the snapshot only, not on
\* the order in which the registry reports the ports; the detected nodes
\* come first, ttyACM before ttyUSB and in string order within a class;
\* then come the paths of the fixed list that exist and were not detected,
\* in the order of the fixed list; no path is listed twice.
C24_CandidateOrdering ==
    Listed =>
        LET L == ret.list
            D == Nodes(call.target)
            k == Cardinality(D)
        IN /\ \A c \in ComportsOutcomes(D) :
                 c.exc = "nothing"
                 => list_candidates(c, DOMAIN call.target).list = L
           /\ Len(L) >= k
           /\ {L[i] : i \in 1 .. k} = D
           /\ \A i, j \in 1 .. k :
                 i < j => \/ IsACM(L[i]) /\ IsUSB(L[j])
                          \/ /\ IsACM(L[i]) = IsACM(L[j])
                             /\ StrRank(L[i]) < StrRank(L[j])
           /\ \A i \in (k + 1) .. Len(L) : L[i] \in (DOMAIN call.target) \ D
           /\ \A i, j \in (k + 1) .. Len(L) :
                 i < j => CommonIdx(L[i]) < CommonIdx(L[j])
           /\ \A i, j \in DOMAIN L : i # j => L[i] # L[j]

\* C24 witness: the registry reports ttyUSB0 before ttyACM1, and ttyACM0
\* and ttyUSB1 exist without being reported: the list is ACM1, USB0, ACM0,
\* USB1.
C24_Witness ==
    /\ Listed
    /\ call.comports.ports = <<USB0, ACM1>>
    /\ ret.list = <<ACM1, USB0, ACM0, USB1>>

\* the agent is connected: ser is an open connection and _port_lock_fh an
\* open lock handle on the same path, and nothing else is open
ConnectedClean ==
    /\ ser # None /\ ~ser.closed
    /\ _port_lock_fh # None /\ ~_port_lock_fh.closed
    /\ _port_lock_fh.path = ser.port
    /\ garbage = {}

\* C25 (as claimed): setup() run again while connected does not disturb
\* the connection: a second setup() on the configured path is not refused
\* as busy on account of the agent's own lock, and however the second
\* setup() ends, the agent then has exactly one open connection, bound to
\* ser, and holds exactly the lock of its path.
C25_ResetupKeepsConnection ==
    [][/\ (/\ pc = "x_lock" /\ pc' = "idle"
           /\ ConnectedClean /\ ser.port = params.serial_port
           /\ Holders(LockPath(ser.port)) = {<<Self, _port_lock_fh>>})
          => setupResult'.last # "busy"
       /\ (pc # "idle" /\ pc' = "idle" /\ ConnectedClean)
          => /\ SelfConns' = {ser'}
             /\ SelfFhs' = {_port_lock_fh'}
             /\ _port_lock_fh'.path = ser'.port]_vars

\* C26: the two variants implement one Record Reader: on the same read
\* outcome (no bytes, non-JSON line, malformed JSON, valid object, I/O
\* exception, ser unset) get_output() of Arduino_source.py and of
\* source_arduino.py return the same text, raise nothing, and leave the
\* same value in state["n"].
C26_VariantsAgree ==
    (call.fn = "get_output x2" /\ ret # None) =>
        /\ ret.Arduino_source = ret.source_arduino
        /\ ret.Arduino_source.text.exc = "nothing"

\* C26 witness: both variants were given a line that does not parse and
\* both returned the marker with the counter untouched.
C26_Witness ==
    /\ call.fn = "get_output x2" /\ ret # None
    /\ call.read = "malformed" /\ call.n = 1
    /\ ret.Arduino_source = [text |-> [exc |-> "nothing", fields |-> MarkerFields],
                             n |-> 1]

\* C27 (as claimed): the buffers of the plotting sink stay aligned and
\* bounded: after any sequence of packets, also ones without millis, data
\* or one of the channels, the time buffer and every channel buffer have
\* one and the same length, and that length is at most max_len.
C27_BuffersAligned ==
    state # NoKeys =>
        /\ Len(state.I1) = Len(state.t_data)
        /\ Len(state.I2) = Len(state.t_data)
        /\ Len(state.I3) = Len(state.t_data)
        /\ Len(state.t_data) <= params.max_len


\* C28: snapshot consistency of the web dashboard.  Every response of
\* /api/readings is one of the dicts deal_with_data() assigned to
\* latest_readings (I1, I2, I3 and timestamp of one packet) or the initial
\* zero readings, never a mix of two; and a packet whose values cannot be
\* converted leaves the published readings as they were.
C28_SnapshotConsistent ==
    /\ [](web.response # None => web.response \in web.published)
    /\ [][(web.packets' # web.packets /\ ret'.exc # "nothing")
             => Readings' = Readings]_vars

\* a response with the initial readings was sent after a packet had
\* replaced them, and the last packet was one that cannot be converted
C28_Witness ==
    /\ web # None
    /\ web.response = initial_readings
    /\ Readings # initial_readings
    /\ ret = [exc |-> "ValueError"]

\* C29 (as claimed): the lock file is removed on clean release: once the
\* agent has released the lock handle it held for a path, the lock file of
\* that path no longer exists.
C29_LockFileRemoved ==
    (Released /\ call.fh # None) =>
        lockfile[LockPath(call.fh.path)] = "absent"

====
